---- MODULE Spec2Model ----
(***************************************************************************)
(* Model of the document-to-answer pipeline of the RAG Document Analyzer:  *)
(* qa_agent.py (text extraction, the four LLM tasks, the placeholder index *)
(* builder) and the Streamlit handlers of streamlit_app.py that call it    *)
(* (Analyze tab, Chat tab, MCQs & Export tab).                             *)
(*                                                                         *)
(* Python str values are TLA+ strings; None-able values are sequences of   *)
(* length 0 (None) or 1.  Temperatures are in hundredths (0.3 is 30).      *)
(***************************************************************************)
EXTENDS Integers, Sequences, FiniteSets, TLC

VARIABLES
    inv,            \* qa_agent: observation of the last task invocation
    uploaded_path,  \* st.session_state.uploaded_path (a file, or <<>>)
    model,          \* sidebar selectbox value
    temp,           \* sidebar temperature slider value
    chunk_size,     \* sidebar chunk size number_input value
    last_summary,   \* st.session_state.last_summary (<<>> when unset)
    last_insights,  \* st.session_state.last_insights (<<>> when unset)
    last_mcqs,      \* st.session_state.last_mcqs
    chat_history,   \* st.session_state.chat_history
    shown,          \* what the last script run rendered / offered
    pass,           \* the widget inputs of the last script run
    asked           \* history: the turns asked since the last Clear Chat

vars == <<inv, uploaded_path, model, temp, chunk_size, last_summary,
          last_insights, last_mcqs, chat_history, shown, pass, asked>>

(***************************************************************************)
(* Bounds of the model.                                                    *)
(***************************************************************************)
\* document lengths range over budget-MaxOver .. budget+MaxOver
MaxOver == 1
\* longest chat history explored
MaxChat == 11
\* indexed documents are up to about MaxChunks * 1024 characters long
MaxChunks == 2

(***************************************************************************)
(* Python string and list primitives.                                      *)
(***************************************************************************)
Min(a, b) == IF a <= b THEN a ELSE b

Max(a, b) == IF a >= b THEN a ELSE b

\* s * n
RECURSIVE Rep(_, _)
Rep(s, n) ==
    IF n = 0 THEN ""
    ELSE LET h == Rep(s, n \div 2)
         IN  IF n % 2 = 0 THEN h \o h ELSE h \o h \o s

\* s[i] (0-based i)
CharAt(s, i) == SubSeq(s, i + 1, i + 1)

IsSpace(c) == c \in {" ", "\n", "\t", "\r"}

RECURSIVE LStrip(_)
LStrip(s) ==
    IF Len(s) > 0 /\ IsSpace(CharAt(s, 0)) THEN LStrip(SubSeq(s, 2, Len(s)))
    ELSE s

RECURSIVE RStrip(_)
RStrip(s) ==
    IF Len(s) > 0 /\ IsSpace(CharAt(s, Len(s) - 1))
    THEN RStrip(SubSeq(s, 1, Len(s) - 1))
    ELSE s

\* s.strip()
Strip(s) == RStrip(LStrip(s))

\* s[:n] for n >= 0
PySliceTo(s, n) == SubSeq(s, 1, Min(n, Len(s)))

\* s[-n:] for n > 0
PySliceLast(s, n) == SubSeq(s, Max(1, Len(s) - n + 1), Len(s))

\* reversed(s)
Reversed(s) == [i \in 1..Len(s) |-> s[Len(s) + 1 - i]]

\* s.find(d, start): 1-based position of the first occurrence of d in s at
\* or after position start, 0 when there is none
RECURSIVE Find(_, _, _)
Find(s, d, start) ==
    IF start + Len(d) - 1 > Len(s) THEN 0
    ELSE IF SubSeq(s, start, start + Len(d) - 1) = d THEN start
    ELSE Find(s, d, start + 1)

\* sub in s
Contains(s, sub) == Find(s, sub, 1) # 0

\* s.split(d) for a non-empty delimiter d
RECURSIVE Split(_, _)
Split(s, d) ==
    LET p == Find(s, d, 1)
    IN  IF p = 0 THEN <<s>>
        ELSE <<SubSeq(s, 1, p - 1)>> \o Split(SubSeq(s, p + Len(d), Len(s)), d)

\* d.join(blocks)
RECURSIVE Join(_, _)
Join(blocks, d) ==
    IF Len(blocks) = 0 THEN ""
    ELSE IF Len(blocks) = 1 THEN blocks[1]
    ELSE blocks[1] \o d \o Join(Tail(blocks), d)

Digits == "0123456789"

\* str(n) for n >= 0, as an f-string formats it
RECURSIVE IntToStr(_)
IntToStr(n) ==
    IF n < 10 THEN CharAt(Digits, n)
    ELSE IntToStr(n \div 10) \o CharAt(Digits, n % 10)

(***************************************************************************)
(* The documents on disk.  A file is its path, the error PdfReader raises  *)
(* on it (<<>> when it opens) and its pages; a page is <<>> when           *)
(* page.extract_text() returns None, else <<text>>.                        *)
(***************************************************************************)
MissingFile ==
    [path  |-> "missing.pdf",
     err   |-> <<"[Errno 2] No such file or directory: 'missing.pdf'">>,
     pages |-> <<>>]

CorruptFile ==
    [path |-> "corrupt.pdf", err |-> <<"EOF marker not found">>, pages |-> <<>>]

\* a scanned document: pages without a text layer, or only white space
BlankFile ==
    [path |-> "scan.pdf", err |-> <<>>, pages |-> << <<>>, <<" \n">>, <<"">> >>]

ShortFile ==
    [path  |-> "short.pdf", err |-> <<>>,
     pages |-> << <<"  Revenue grew 4%.\n">>, <<>>, <<"Costs fell.\n\n">> >>]

\* n characters without white space at either end
Body(n) == Rep("abc", n \div 3) \o SubSeq("abc", 1, n % 3)

\* a document whose extracted text has exactly n characters (n >= 1)
LongFile(n) ==
    [path  |-> "report" \o IntToStr(n) \o ".pdf", err |-> <<>>,
     pages |-> << <<"\n ">>, <<Body(n - 1)>>, <<>>, <<"z \n">> >>]

(***************************************************************************)
(* qa_agent.extract_text_from_pdf                                          *)
(***************************************************************************)
\* page.extract_text() or ""
PageText(page) == IF page = <<>> THEN "" ELSE page[1]

\* text += ... over reader.pages
RECURSIVE ConcatPages(_)
ConcatPages(pages) ==
    IF pages = <<>> THEN "" ELSE PageText(Head(pages)) \o ConcatPages(Tail(pages))

\* the except branch of extract_text_from_pdf is taken
ExtractRaised(f) == f.err # <<>>

extract_text_from_pdf(f) ==
    IF ExtractRaised(f) THEN "[Error extracting text: " \o f.err[1] \o "]"
    ELSE Strip(ConcatPages(f.pages))

(***************************************************************************)
(* The completion service.  An outcome is what one call of                 *)
(* client.chat.completions.create does: raise (raised = <<cause>>), or     *)
(* answer with a list of choices, each the message content (<<>> is None). *)
(***************************************************************************)
Raises(cause) == [raised |-> <<cause>>, choices |-> <<>>]

Answers(content) == [raised |-> <<>>, choices |-> << <<content>> >>]

NoChoices == [raised |-> <<>>, choices |-> <<>>]

NoneContent == [raised |-> <<>>, choices |-> << <<>> >>]

\* the body of the try block of a task: the call and
\* response.choices[0].message.content.strip(); raised = <<str(e)>> when
\* any of it raises
Completion(outcome) ==
    IF outcome.raised # <<>> THEN [raised |-> outcome.raised, content |-> ""]
    ELSE IF outcome.choices = <<>>
    THEN [raised |-> <<"list index out of range">>, content |-> ""]
    ELSE IF outcome.choices[1] = <<>>
    THEN [raised |-> <<"'NoneType' object has no attribute 'strip'">>,
          content |-> ""]
    ELSE [raised |-> <<>>, content |-> Strip(outcome.choices[1][1])]

\* the keyword arguments of client.chat.completions.create
Request(m, system, user, temperature) ==
    [model |-> m, system |-> system, user |-> user, temperature |-> temperature]

(***************************************************************************)
(* The four tasks of qa_agent.  Each yields the value returned (ret), the  *)
(* local text, the calls made to the collaborators in order, the request   *)
(* sent to the service (<<>> when none was sent) and whether the except    *)
(* branch of the task was taken.                                           *)
(***************************************************************************)
\* mutant: `if text is None`, which a str never is
NoText_is_none(text) == FALSE

\* `if not text`
NoText(text) == text = ""

Returned(text, ret) ==
    [text |-> text, ret |-> ret, calls |-> <<"PdfReader">>, sent |-> <<>>,
     completion_failed |-> FALSE]

Completed(text, request, c, error_string) ==
    [text |-> text,
     ret  |-> IF c.raised # <<>> THEN error_string ELSE c.content,
     calls |-> <<"PdfReader", "create">>, sent |-> <<request>>,
     completion_failed |-> c.raised # <<>>]

SummaryBudget == 6000

InsightsBudget == 8000

McqBudget == 8000

AnswerBudget == 6000

summary_head == "Summarize this financial or technical document in bullet points:\n\n"

\* mutant: the summary takes the budget of the insights
summary_prompt_other_budget(text) == summary_head \o PySliceTo(text, InsightsBudget)

summary_prompt(text) == summary_head \o PySliceTo(text, SummaryBudget)

summary_error(e) == "[Summary generation error: " \o e \o "]"

generate_summary(f, m, temperature, outcome) ==
    LET text == extract_text_from_pdf(f)
        c    == Completion(outcome)
    IN  IF NoText(text) THEN Returned(text, "No text extracted from the document.")
        ELSE Completed(text,
                 Request(m, "You are an expert financial data summarizer.",
                         summary_prompt(text), temperature),
                 c, summary_error(IF c.raised = <<>> THEN "" ELSE c.raised[1]))

insights_head == "From the following financial document, derive deep insights, patterns, and anomalies:\n\n"

insights_prompt(text) == insights_head \o PySliceTo(text, InsightsBudget)

\* mutant: the error string of the summary, copied
insights_error_copied(e) == "[Summary generation error: " \o e \o "]"

insights_error(e) == "[Insight generation error: " \o e \o "]"

generate_insights(f, m, chunk, outcome) ==
    LET text == extract_text_from_pdf(f)
        c    == Completion(outcome)
    IN  IF NoText(text) THEN Returned(text, "No text extracted.")
        ELSE Completed(text,
                 Request(m, "You are a financial analyst who identifies trends, risks, and opportunities.",
                         insights_prompt(text), 40),
                 c, insights_error(IF c.raised = <<>> THEN "" ELSE c.raised[1]))

mcq_head(num_questions) ==
    "Generate " \o IntToStr(num_questions)
        \o " multiple choice questions with 4 options each, "
        \o "and provide the correct answer at the end. Use this document:\n\n"

mcq_prompt(text, num_questions) ==
    mcq_head(num_questions) \o PySliceTo(text, McqBudget)

mcq_error(e) == "[MCQ generation error: " \o e \o "]"

generate_mcq(f, num_questions, m, outcome) ==
    LET text == extract_text_from_pdf(f)
        c    == Completion(outcome)
    IN  IF NoText(text) THEN Returned(text, "No text extracted.")
        ELSE Completed(text,
                 Request(m, "You are a teacher creating concept-checking MCQs.",
                         mcq_prompt(text, num_questions), 50),
                 c, mcq_error(IF c.raised = <<>> THEN "" ELSE c.raised[1]))

answer_head == "Use the following document to answer the question:\n\nDocument:\n"

answer_tail(question) == "\n\nQuestion: " \o question

answer_prompt(text, question) ==
    answer_head \o PySliceTo(text, AnswerBudget) \o answer_tail(question)

answer_error(e) == "[Answer generation error: " \o e \o "]"

answer_question(f, question, m, outcome) ==
    LET text == extract_text_from_pdf(f)
        c    == Completion(outcome)
    IN  IF NoText(text) THEN Returned(text, "No text available to answer from.")
        ELSE Completed(text,
                 Request(m, "You are an expert assistant that answers accurately from context.",
                         answer_prompt(text, question), 20),
                 c, answer_error(IF c.raised = <<>> THEN "" ELSE c.raised[1]))

\* mutant: the ceiling of len(text) / chunk_size
chunk_count_ceiling(text, chunk) == (Len(text) + chunk - 1) \div chunk

\* len(text)//chunk_size + 1
chunk_count(text, chunk) == (Len(text) \div chunk) + 1

\* Path(file_path).name and the count that build_retrieval_index formats
\* into its message
build_retrieval_index(f, chunk) ==
    [name |-> f.path, chunks |-> chunk_count(extract_text_from_pdf(f), chunk)]

(***************************************************************************)
(* Specification of qa_agent: a caller invokes the four tasks in any       *)
(* order, on any file, while the service answers or fails as it likes.     *)
(* inv records what the last invocation was given, did and returned;       *)
(* after_failure tells that the invocation before it ended in the except   *)
(* branch of its task.                                                     *)
(***************************************************************************)
AgentFiles ==
    {MissingFile, CorruptFile, BlankFile, ShortFile}
        \cup {LongFile(b + d) : b \in {SummaryBudget, InsightsBudget},
                                d \in (0 - MaxOver)..MaxOver}

Models == {"gpt-4o-mini", "gpt-4o"}

AgentTemperatures == {30, 90}

AgentQuestions == {"What grew?"}

AgentCounts == {5, 10}

Outcomes ==
    {Raises("Request timed out."), NoChoices, NoneContent,
     Answers("  - Revenue up\n- Costs down \n")}

Idle ==
    [model |-> "", path |-> "", cause |-> "", raised |-> FALSE,
     outcome |-> <<>>, temperature |-> <<>>, text |-> "", ret |-> "",
     calls |-> <<>>, sent |-> <<>>, completion_failed |-> FALSE,
     question |-> "", kind |-> "idle", after_failure |-> FALSE]

Observed(kind, f, m, temperature, question, outcome, r) ==
    [model |-> m, path |-> f.path,
     cause |-> IF ExtractRaised(f) THEN f.err[1] ELSE "",
     raised |-> ExtractRaised(f),
     outcome |-> IF r.sent = <<>> THEN <<>> ELSE <<outcome>>,
     temperature |-> temperature, text |-> r.text, ret |-> r.ret,
     calls |-> r.calls, sent |-> r.sent,
     completion_failed |-> r.completion_failed, question |-> question,
     kind |-> kind, after_failure |-> inv.completion_failed]

uiVars == <<uploaded_path, model, temp, chunk_size, last_summary,
            last_insights, last_mcqs, chat_history, shown, pass, asked>>

UiUnused ==
    /\ uploaded_path = <<>>
    /\ model = "gpt-4o-mini"
    /\ temp = 30
    /\ chunk_size = 1024
    /\ last_summary = <<>>
    /\ last_insights = <<>>
    /\ last_mcqs = <<>>
    /\ chat_history = <<>>
    /\ shown = <<>>
    /\ pass = <<>>
    /\ asked = <<>>

InitAgent == inv = Idle /\ UiUnused

GenerateSummary(f, m, temperature, outcome) ==
    /\ inv' = Observed("summary", f, m, <<temperature>>, "", outcome,
                       generate_summary(f, m, temperature, outcome))
    /\ UNCHANGED uiVars

GenerateInsights(f, m, chunk, outcome) ==
    /\ inv' = Observed("insights", f, m, <<>>, "", outcome,
                       generate_insights(f, m, chunk, outcome))
    /\ UNCHANGED uiVars

GenerateMcq(f, num_questions, m, outcome) ==
    /\ inv' = Observed("mcq", f, m, <<>>, IntToStr(num_questions), outcome,
                       generate_mcq(f, num_questions, m, outcome))
    /\ UNCHANGED uiVars

AnswerQuestion(f, question, m, outcome) ==
    /\ inv' = Observed("answer", f, m, <<>>, question, outcome,
                       answer_question(f, question, m, outcome))
    /\ UNCHANGED uiVars

NextAgent ==
    \/ \E f \in AgentFiles, m \in Models, t \in AgentTemperatures, o \in Outcomes :
           GenerateSummary(f, m, t, o)
    \/ \E f \in AgentFiles, m \in Models, o \in Outcomes :
           GenerateInsights(f, m, 1024, o)
    \/ \E f \in AgentFiles, n \in AgentCounts, m \in Models, o \in Outcomes :
           GenerateMcq(f, n, m, o)
    \/ \E f \in AgentFiles, q \in AgentQuestions, m \in Models, o \in Outcomes :
           AnswerQuestion(f, q, m, o)

SpecAgent == InitAgent /\ [][NextAgent]_vars

(***************************************************************************)
(* Properties of the tasks, checked under SpecAgent.                       *)
(***************************************************************************)
Invoked == inv.kind # "idle"

StartsWith(s, prefix) == SubSeq(s, 1, Len(prefix)) = prefix

\* the name each task gives itself in its messages
TaskName(kind) ==
    CASE kind = "summary"  -> "Summary"
      [] kind = "insights" -> "Insight"
      [] kind = "mcq"      -> "MCQ"
      [] kind = "answer"   -> "Answer"

\* C1: when extraction fails, the task returns an error string that
\* contains the name of the task and the cause of the extraction failure.
C1_ExtractionFailureReported ==
    (Invoked /\ inv.raised) =>
        /\ Contains(inv.ret, TaskName(inv.kind))
        /\ Contains(inv.ret, inv.cause)

\* C2: every invocation extracts exactly once and then either stops or
\* calls the completion service exactly once; the service is called only
\* after an extraction that succeeded, so an extraction error ends the
\* invocation without a completion call.
C2_ExtractThenCompleteOnce ==
    Invoked =>
        /\ inv.calls \in {<<"PdfReader">>, <<"PdfReader", "create">>}
        /\ (inv.raised => inv.calls = <<"PdfReader">>)
        /\ (inv.calls = <<"PdfReader", "create">> => ~inv.raised)

ErrorTag(kind) == "[" \o TaskName(kind) \o " generation error: "

\* C3: a failure of the completion service is returned as the task's tag
\* followed by the cause, and an invocation made after a failed one is
\* served as usual: its successful completion is returned stripped.
C3_CompletionFailureTagged ==
    /\ inv.completion_failed =>
           /\ StartsWith(inv.ret, ErrorTag(inv.kind))
           /\ inv.outcome[1].raised # <<>> =>
                  inv.ret = ErrorTag(inv.kind) \o inv.outcome[1].raised[1] \o "]"
    /\ (inv.after_failure /\ inv.sent # <<>> /\ ~inv.completion_failed) =>
           /\ inv.ret = Strip(inv.outcome[1].choices[1][1])
           /\ ~StartsWith(inv.ret, "[")

C3_Witness ==
    /\ inv.after_failure
    /\ inv.sent # <<>>
    /\ ~inv.completion_failed
    /\ inv.kind = "answer"

\* the budgets as the specification states them
StatedBudget(kind) ==
    CASE kind = "summary"  -> 6000
      [] kind = "insights" -> 8000
      [] kind = "mcq"      -> 8000
      [] kind = "answer"   -> 6000

\* the fixed text around the document fragment in the prompt of a task
HeadOf(i) ==
    CASE i.kind = "summary"  -> summary_head
      [] i.kind = "insights" -> insights_head
      [] i.kind = "mcq"      -> "Generate " \o i.question
                                   \o " multiple choice questions with 4 options each, and provide the correct answer at the end. Use this document:\n\n"
      [] i.kind = "answer"   -> answer_head

TailOf(i) == IF i.kind = "answer" THEN "\n\nQuestion: " \o i.question ELSE ""

\* the part of the user prompt between the fixed texts
Fragment(i) ==
    SubSeq(i.sent[1].user, Len(HeadOf(i)) + 1,
           Len(i.sent[1].user) - Len(TailOf(i)))

\* C5: the document fragment of the prompt is the first min(len(text), B)
\* characters of the extracted text, B being the budget of the task.
C5_FragmentIsBudgetPrefix ==
    inv.sent # <<>> =>
        LET frag == Fragment(inv)
            B    == StatedBudget(inv.kind)
        IN  /\ inv.sent[1].user = HeadOf(inv) \o frag \o TailOf(inv)
            /\ Len(frag) = Min(Len(inv.text), B)
            /\ frag = SubSeq(inv.text, 1, Len(frag))
            /\ Len(inv.text) > B  => Len(frag) = B
            /\ Len(inv.text) <= B => frag = inv.text

C5_Witness ==
    /\ inv.sent # <<>>
    /\ inv.kind = "summary"
    /\ Len(inv.text) > 6000
    /\ Len(Fragment(inv)) = 6000

ExtractedNothing == Invoked /\ ~inv.raised /\ inv.text = ""

\* C6 as stated: an extraction that yields empty text still leads to a
\* call of the completion service.
C6_EmptyTextStillCompletes ==
    ExtractedNothing => inv.calls = <<"PdfReader", "create">>

Placeholder(kind) ==
    CASE kind = "summary"  -> "No text extracted from the document."
      [] kind = "insights" -> "No text extracted."
      [] kind = "mcq"      -> "No text extracted."
      [] kind = "answer"   -> "No text available to answer from."

\* C6 amended: an extraction that yields empty text ends the invocation
\* with the placeholder message of the task, for each of the four tasks,
\* and the completion service is not called.
C6_EmptyTextReturnsPlaceholder ==
    ExtractedNothing =>
        /\ inv.calls = <<"PdfReader">>
        /\ inv.sent = <<>>
        /\ inv.ret = Placeholder(inv.kind)

C6_Witness == ExtractedNothing /\ inv.kind = "mcq" /\ inv.ret = "No text extracted."

(***************************************************************************)
(* streamlit_app.py.  Every user interaction runs the whole script once:   *)
(* the sidebar, the uploader, then the Analyze, Chat and Export tabs in    *)
(* this order.  A run is given the widget values `in`: the event that      *)
(* caused it (at most one button is pressed in a run), the sidebar values, *)
(* the chat query, the outcome of the completion call it may make, the     *)
(* text area edited (<<>> or <<index, text>>) and the Delete buttons       *)
(* pressed.                                                                *)
(***************************************************************************)
\* the files a user can upload: they exist, so PdfReader fails on them only
\* when they are not PDF (the uploader also accepts CSV)
CsvFile ==
    [path |-> "ledger.csv", err |-> <<"EOF marker not found">>, pages |-> <<>>]

IndexFiles ==
    {CsvFile, BlankFile, ShortFile}
        \cup {LongFile(k * 1024 + d) : k \in 1..MaxChunks, d \in (0 - MaxOver)..MaxOver}

\* the file saved at path
FileAt(path) == CHOOSE f \in IndexFiles : f.path = path

NothingShown == [chat |-> <<>>, mcq_download |-> <<>>, index |-> <<>>]

Input(event, m, t, c) ==
    [model |-> m, temp |-> t, chunk_size |-> c, outcome |-> NoChoices,
     event |-> event, file |-> "", query |-> "", edit |-> <<>>, deleted |-> {}]

\* chat_history.append({"q": query, "a": answer})
chat_append(history, q, a) == Append(history, [a |-> a, q |-> q])

\* mutant: reversed(chat_history[:10])
chat_display_oldest(history) == Reversed(PySliceTo(history, 10))

\* reversed(chat_history[-10:])
chat_display(history) == Reversed(PySliceLast(history, 10))

\* mutant: "\n".join(edited_mcqs)
mcq_export_single_break(blocks) == Join(blocks, "\n")

\* "\n\n".join(edited_mcqs)
mcq_export(blocks) == Join(blocks, "\n\n")

\* mutant: the loop without the `continue` of the Delete button
RECURSIVE edited_mcqs_no_skip(_, _, _)
edited_mcqs_no_skip(mcqs, idx, in) ==
    IF idx > Len(mcqs) THEN <<>>
    ELSE LET q      == mcqs[idx]
             edited == IF in.edit # <<>> /\ in.edit[1] = idx THEN in.edit[2] ELSE q
         IN  <<edited>> \o edited_mcqs_no_skip(mcqs, idx + 1, in)

\* the loop of the export tab over last_mcqs from index idx (1-based) on:
\* the text area of a block returns the text typed into it, else its value
\* q; a block whose Delete button is pressed is skipped
RECURSIVE edited_mcqs(_, _, _)
edited_mcqs(mcqs, idx, in) ==
    IF idx > Len(mcqs) THEN <<>>
    ELSE LET q      == mcqs[idx]
             edited == IF in.edit # <<>> /\ in.edit[1] = idx THEN in.edit[2] ELSE q
         IN  IF idx \in in.deleted THEN edited_mcqs(mcqs, idx + 1, in)
             ELSE <<edited>> \o edited_mcqs(mcqs, idx + 1, in)

\* the Analyze tab: the three task buttons and the rebuild of the index
AnalyzeTab(in, path) ==
    LET f   == FileAt(path[1])
        idle == [index |-> <<>>, mcqs |-> last_mcqs, summary |-> last_summary,
                 insights |-> last_insights, obs |-> inv]
    IN  IF path = <<>> THEN idle
        ELSE IF in.event = "summary"
        THEN LET r == generate_summary(f, in.model, in.temp, in.outcome)
             IN  [idle EXCEPT !.summary = <<r.ret>>,
                              !.obs = Observed("summary", f, in.model, <<in.temp>>,
                                               "", in.outcome, r)]
        ELSE IF in.event = "insights"
        THEN LET r == generate_insights(f, in.model, in.chunk_size, in.outcome)
             IN  [idle EXCEPT !.insights = <<r.ret>>,
                              !.obs = Observed("insights", f, in.model, <<>>,
                                               "", in.outcome, r)]
        ELSE IF in.event = "mcqs"
        THEN LET r == generate_mcq(f, 10, in.model, in.outcome)
             IN  [idle EXCEPT !.mcqs = Split(r.ret, "\n\n"),
                              !.obs = Observed("mcq", f, in.model, <<>>,
                                               IntToStr(10), in.outcome, r)]
        ELSE IF in.event = "reindex"
        THEN [idle EXCEPT !.index = <<build_retrieval_index(f, in.chunk_size)>>]
        ELSE idle

\* the Chat tab, entered with the observation obs of the Analyze tab
ChatTab(in, path, obs) ==
    LET f == FileAt(path[1])
    IN  IF path = <<>>
        THEN [history |-> chat_history, obs |-> obs, display |-> <<>>]
        ELSE IF in.event = "ask" /\ in.query # ""
        THEN LET r == answer_question(f, in.query, in.model, in.outcome)
                 h == chat_append(chat_history, in.query, r.ret)
             IN  [history |-> h,
                  obs |-> Observed("answer", f, in.model, <<>>, in.query,
                                   in.outcome, r),
                  display |-> chat_display(h)]
        ELSE IF in.event = "clear"
        THEN [history |-> <<>>, obs |-> obs, display |-> chat_display(<<>>)]
        ELSE [history |-> chat_history, obs |-> obs,
              display |-> chat_display(chat_history)]

\* the MCQs & Export tab, entered with the list mcqs the Analyze tab left
ExportTab(in, mcqs) ==
    IF mcqs # <<>>
    THEN LET e == edited_mcqs(mcqs, 1, in)
         IN  [mcqs |-> e, download |-> <<mcq_export(e)>>]
    ELSE [mcqs |-> mcqs, download |-> <<>>]

\* one run of the script
Run(in) ==
    LET path == IF in.event = "upload" THEN <<in.file>> ELSE uploaded_path
        a    == AnalyzeTab(in, path)
        c    == ChatTab(in, path, a.obs)
        x    == ExportTab(in, a.mcqs)
    IN  /\ uploaded_path' = path
        /\ model' = in.model
        /\ temp' = in.temp
        /\ chunk_size' = in.chunk_size
        /\ last_summary' = a.summary
        /\ last_insights' = a.insights
        /\ last_mcqs' = x.mcqs
        /\ chat_history' = c.history
        /\ inv' = c.obs
        /\ shown' = [chat |-> c.display, mcq_download |-> x.download,
                     index |-> a.index]
        /\ pass' = [in |-> in, before |-> a.mcqs]
        /\ asked' = IF path # <<>> /\ in.event = "ask" /\ in.query # ""
                    THEN Append(asked, [a |-> c.obs.ret, q |-> in.query])
                    ELSE IF path # <<>> /\ in.event = "clear" THEN <<>>
                    ELSE asked

InitUi ==
    /\ inv = Idle
    /\ uploaded_path = <<>>
    /\ model = "gpt-4o-mini"
    /\ temp = 30
    /\ chunk_size = 1024
    /\ last_summary = <<>>
    /\ last_insights = <<>>
    /\ last_mcqs = <<>>
    /\ chat_history = <<>>
    /\ shown = NothingShown
    /\ pass = [in |-> Input("none", "gpt-4o-mini", 30, 1024), before |-> <<>>]
    /\ asked = <<>>

\* the last three characters of a file name
Extension(path) == SubSeq(path, Len(path) - 2, Len(path))

\* the user puts a file into the uploader, which takes PDF and CSV files
Upload(f, m, t, c) ==
    /\ Extension(f.path) \in {"pdf", "csv"}
    /\ Run([Input("upload", m, t, c) EXCEPT !.file = f.path])

\* the buttons are rendered only once a document is uploaded
CreateSummary(m, t, c, outcome) ==
    /\ uploaded_path # <<>>
    /\ Run([Input("summary", m, t, c) EXCEPT !.outcome = outcome])

ExtractInsights(m, t, c, outcome) ==
    /\ uploaded_path # <<>>
    /\ Run([Input("insights", m, t, c) EXCEPT !.outcome = outcome])

CreateMCQs(m, t, c, outcome) ==
    /\ uploaded_path # <<>>
    /\ Run([Input("mcqs", m, t, c) EXCEPT !.outcome = outcome])

\* the sidebar button is there with or without a document; the chunk size
\* input takes 256 to 4096
RebuildIndex(m, t, c) ==
    /\ c \in 256..4096
    /\ Run(Input("reindex", m, t, c))

Ask(m, t, c, query, outcome) ==
    /\ uploaded_path # <<>>
    /\ Len(chat_history) < MaxChat
    /\ Run([Input("ask", m, t, c) EXCEPT !.query = query, !.outcome = outcome])

ClearChat(m, t, c) ==
    /\ uploaded_path # <<>>
    /\ Run(Input("clear", m, t, c))

\* the user edits the text area of block idx
EditMcq(m, t, c, idx, text) ==
    /\ idx \in 1..Len(last_mcqs)
    /\ Run([Input("edit", m, t, c) EXCEPT !.edit = <<idx, text>>])

\* the user presses Delete on block idx, possibly with an edit of block at
\* still pending in its text area (at = 0: none)
DeleteMcq(m, t, c, idx, at, text) ==
    /\ idx \in 1..Len(last_mcqs)
    /\ at \in 0..Len(last_mcqs)
    /\ Run([Input("delete", m, t, c) EXCEPT
               !.deleted = {idx},
               !.edit = IF at = 0 THEN <<>> ELSE <<at, text>>])

(***************************************************************************)
(* The Analyze tab: summaries, insights and MCQs of an uploaded document   *)
(* under the sidebar settings of each run.                                 *)
(***************************************************************************)
UploadableFiles == {CsvFile, BlankFile, ShortFile}

\* sidebar settings: model, temperature (slider position in hundredths)
\* and chunk size
Sidebar == {<<"gpt-4o-mini", 30, 1024>>, <<"gpt-4o", 70, 512>>}

UiOutcomes ==
    {Raises("Request timed out."), Answers(" Q1?\nA) 1\n\nQ2?\nA) 2\n")}

NextAnalyze ==
    \/ \E f \in UploadableFiles, s \in Sidebar : Upload(f, s[1], s[2], s[3])
    \/ \E s \in Sidebar, o \in UiOutcomes : CreateSummary(s[1], s[2], s[3], o)
    \/ \E s \in Sidebar, o \in UiOutcomes : ExtractInsights(s[1], s[2], s[3], o)
    \/ \E s \in Sidebar, o \in UiOutcomes : CreateMCQs(s[1], s[2], s[3], o)

SpecAnalyze == InitUi /\ [][NextAnalyze]_vars

\* C4: the model and the temperature sent to the completion service are
\* the ones the caller chose for the invocation.
C4_SentAsSupplied ==
    (pass.in.event \in {"summary", "insights", "mcqs"} /\ uploaded_path # <<>>
        /\ inv.sent # <<>>) =>
        /\ inv.sent[1].model = pass.in.model
        /\ inv.sent[1].temperature = pass.in.temp

(***************************************************************************)
(* The rebuild of the document index.                                      *)
(***************************************************************************)
\* values of the chunk size number_input (256 to 4096 in steps of 64)
ChunkSizes == {256, 512, 1024, 1088, 2048, 4096}

NextIndex ==
    \/ \E f \in IndexFiles, c \in ChunkSizes : Upload(f, "gpt-4o-mini", 30, c)
    \/ \E c \in ChunkSizes : RebuildIndex("gpt-4o-mini", 30, c)

SpecIndex == InitUi /\ [][NextIndex]_vars

\* C7: the index of a document whose text has L characters, built with
\* chunk size C, reports (L // C) + 1 chunks: 3 for L = 2048 and C = 1024,
\* 1 for L = 0.
C7_ChunkCount ==
    shown.index # <<>> =>
        LET L == Len(extract_text_from_pdf(FileAt(uploaded_path[1])))
            n == shown.index[1].chunks
        IN  /\ shown.index[1].name = uploaded_path[1]
            /\ n = (L \div chunk_size) + 1
            /\ (n - 1) * chunk_size <= L
            /\ L < n * chunk_size
            /\ (uploaded_path[1] = "report2048.pdf" /\ chunk_size = 1024) => n = 3
            /\ (uploaded_path[1] = "report2047.pdf" /\ chunk_size = 1024) => n = 2
            /\ uploaded_path[1] = "scan.pdf" => n = 1

C7_Witness ==
    /\ shown.index # <<>>
    /\ uploaded_path = <<"report2048.pdf">>
    /\ chunk_size = 1024
    /\ shown.index[1].chunks = 3

(***************************************************************************)
(* The Chat tab.                                                           *)
(***************************************************************************)
ChatQueries == {"", "What grew?", "What fell?"}

ChatOutcomes == {Answers("Revenue, by 4%.\n")}

NextChat ==
    \/ Upload(ShortFile, "gpt-4o-mini", 30, 1024)
    \/ \E q \in ChatQueries, o \in ChatOutcomes :
           Ask("gpt-4o-mini", 30, 1024, q, o)
    \/ ClearChat("gpt-4o-mini", 30, 1024)

SpecChat == InitUi /\ [][NextChat]_vars

\* C9: the chat history is the turns asked with a non-empty query since the
\* last Clear Chat, in the order asked, and the turns displayed are the
\* last min(10, length) of them, newest first.
C9_ChatHistory ==
    /\ chat_history = asked
    /\ \A i \in 1..Len(asked) : asked[i].q # ""
    /\ uploaded_path # <<>> =>
           /\ Len(shown.chat) = Min(10, Len(asked))
           /\ \A i \in 1..Len(shown.chat) :
                  shown.chat[i] = asked[Len(asked) + 1 - i]

C9_Witness ==
    /\ Len(chat_history) > 10
    /\ Len(shown.chat) = 10
    /\ shown.chat[1] = chat_history[Len(chat_history)]
    /\ shown.chat[1] # chat_history[1]

(***************************************************************************)
(* The MCQs & Export tab.                                                  *)
(***************************************************************************)
McqOutcomes ==
    {Raises("Request timed out."),
     Answers("Q1?\nA) 1\n\n\nQ2?\nA) 2\n\nQ3?\n")}

EditTexts == {"Q?\n", "Q?\n\nA) 1", ""}

\* positions of the blocks: a completion of McqOutcomes has at most 3
BlockIndices == 1..3

NextExport ==
    \/ Upload(ShortFile, "gpt-4o-mini", 30, 1024)
    \/ \E o \in McqOutcomes : CreateMCQs("gpt-4o-mini", 30, 1024, o)
    \/ \E idx \in BlockIndices, text \in EditTexts :
           EditMcq("gpt-4o-mini", 30, 1024, idx, text)
    \/ \E idx \in BlockIndices, at \in {0} \cup BlockIndices, text \in EditTexts :
           DeleteMcq("gpt-4o-mini", 30, 1024, idx, at, text)

SpecExport == InitUi /\ [][NextExport]_vars

Rejoined == Split(shown.mcq_download[1], "\n\n")

\* C8 as stated: splitting the joined blocks on the double line break
\* gives back the blocks, whatever the blocks are.
C8_SplitInvertsJoin ==
    shown.mcq_download # <<>> => Rejoined = last_mcqs

EndsWithNewline(s) == Len(s) > 0 /\ CharAt(s, Len(s) - 1) = "\n"

\* no delimiter can be found in the joined text but between two blocks
Separable(blocks) ==
    /\ blocks # <<>>
    /\ \A i \in 1..Len(blocks) : ~Contains(blocks[i], "\n\n")
    /\ \A i \in 1..(Len(blocks) - 1) : ~EndsWithNewline(blocks[i])

\* C8 amended: splitting the joined blocks gives back the blocks when the
\* sequence is not empty, no block contains a double line break and no
\* block but the last ends with a line break (and only then).
C8_SplitInvertsJoinOfSeparable ==
    shown.mcq_download # <<>> => (Separable(last_mcqs) <=> Rejoined = last_mcqs)

C8_Witness ==
    /\ shown.mcq_download # <<>>
    /\ Len(last_mcqs) >= 2
    /\ Separable(last_mcqs)
    /\ pass.in.edit # <<>>
    /\ Rejoined = last_mcqs

\* the text area of block i of the list the export tab was entered with
TextArea(i) ==
    IF pass.in.edit # <<>> /\ pass.in.edit[1] = i THEN pass.in.edit[2]
    ELSE pass.before[i]

Remaining == {i \in 1..Len(pass.before) : i \notin pass.in.deleted}

\* C10: a pass of the export tab over a non-empty list stores the list
\* without the blocks whose Delete was pressed, each remaining block with
\* the text of its text area and in its former order; the list does not
\* grow and the download is the remaining blocks joined by "\n\n".
C10_ExportKeepsEditedUndeleted ==
    pass.before # <<>> =>
        /\ Len(last_mcqs) = Cardinality(Remaining)
        /\ Len(last_mcqs) <= Len(pass.before)
        /\ \A i \in Remaining :
               last_mcqs[Cardinality({j \in Remaining : j <= i})] = TextArea(i)
        /\ shown.mcq_download = <<Join(last_mcqs, "\n\n")>>

C10_Witness ==
    /\ Len(pass.before) = 3
    /\ pass.in.deleted = {2}
    /\ pass.in.edit # <<>>
    /\ pass.in.edit[1] = 3
    /\ last_mcqs = <<pass.before[1], pass.in.edit[2]>>
    /\ last_mcqs[2] # pass.before[3]

====
